---- MODULE Spec2Model ----
(***************************************************************************)
(* A model of vcsmc.py: the Variational Combinatorial Sequential Monte     *)
(* Carlo sampler (class VCSMC, sample_phylogenies and the loop bodies it   *)
(* drives).                                                                *)
(*                                                                         *)
(* Tensors are 0-based arrays (functions on 0..len-1), as in the code.     *)
(* A taxon is its position 1..n in datadict['taxa'].  A label (a string of *)
(* taxa joined by '+') is the sequence of the taxa it names.  A partial    *)
(* likelihood matrix is the term that computed it, in postfix form: a leaf *)
(* is <<t>>, and conditional_likelihood(l, r, lb, rb) is l \o r \o         *)
(* <<lb, rb>> with lb, rb the (negative) names of the two branch-length    *)
(* variables.  A log-likelihood is a formal sum of per-node terms, a       *)
(* float such as v or q is an exact fraction <<num, den>>.                 *)
(***************************************************************************)
EXTENDS Integers, Sequences, FiniteSets, Bags, TLC

\* Bounds of the model: the size K * n of the particle tensor, the largest
\* Gumbel perturbation (in units of one score step), and the range the
\* multiplicities given to overcounting_correct are drawn from.
MaxCells == 8
MaxZ == 3
MaxV == 3

VARIABLES n, K, pc, r, log_weights, log_likelihood, log_likelihood_tilda,
          jump_chains, jump_chain_tensor, core, v, indices,
          coalesced_indices, remaining_indices, q, log_weights_i

vars == <<n, K, pc, r, log_weights, log_likelihood, log_likelihood_tilda,
          jump_chains, jump_chain_tensor, core, v, indices,
          coalesced_indices, remaining_indices, q, log_weights_i>>

---------------------------------------------------------------------------
\* 0-based arrays

Size(a) == Cardinality(DOMAIN a)

Empty == [j \in {} |-> 0]

One(e) == [j \in {0} |-> e]

Pair(e1, e2) == [j \in {0, 1} |-> IF j = 0 THEN e1 ELSE e2]

\* the array f with every entry computed, as an op returns its tensor
\* (f @@ Empty = f)
Tensor(f) == f @@ Empty

Fill(len, e) == Tensor([j \in 0..(len - 1) |-> e])

\* tf.concat of two vectors
Concat(a, b) ==
  LET la == Size(a)
      lb == Size(b)
  IN  Tensor([j \in 0..(la + lb - 1) |-> IF j < la THEN a[j] ELSE b[j - la]])

\* tf.gather(params, idx) along axis 0
Gather(params, idx) == Tensor([j \in DOMAIN idx |-> params[idx[j]]])

\* tf.gather(params, tf.range(lo, hi))
GatherRange(params, lo, hi) == Tensor([j \in 0..(hi - lo - 1) |-> params[lo + j]])

\* tf.reshape(T, [rows * cols]) of a rows x cols tensor, row-major
Flatten(T, cols) == Tensor([f \in 0..(Size(T) * cols - 1) |-> T[f \div cols][f % cols]])

---------------------------------------------------------------------------
\* exact fractions for the float64 scalars v, 1/v and q

RECURSIVE Gcd(_, _)
Gcd(a, b) == IF b = 0 THEN a ELSE Gcd(b, a % b)

Abs(a) == IF a < 0 THEN -a ELSE a

\* num/den in lowest terms with den >= 0; x/0 is +inf, written <<1, 0>>
Frac(num, den) ==
  IF den = 0 THEN <<1, 0>>
  ELSE LET g == Gcd(Abs(num), Abs(den))
           s == IF den < 0 THEN -1 ELSE 1
       IN  <<(s * num) \div g, (s * den) \div g>>

RECURSIVE Prod(_, _)
\* tf.reduce_prod(tf.range(lo, hi)); the empty product is 1
Prod(lo, hi) == IF lo >= hi THEN 1 ELSE lo * Prod(lo + 1, hi)

\* ncr(n, r): numer / denom, a true division
ncr(nn, rr) == Frac(Prod(nn - rr + 1, nn + 1), Prod(1, rr + 1))

---------------------------------------------------------------------------
\* symbolic values

\* the label of taxon t, and the one-hot genome matrix of taxon t
TaxonLabel(t) == <<t>>

Genome(t) == <<t>>

\* np.zeros((s, a)), the filler entry the loops start their lists with
ZeroMatrix == << >>

\* self.left_branches[k, i] and self.right_branches[k, i]: the names of the
\* branch-length variables (negative, so that no taxon is mistaken for one)
left_branches(k, i) == 0 - (2 * (k * n + i) + 1)

right_branches(k, i) == 0 - (2 * (k * n + i) + 2)

\* particle1 + '+' + particle2 on strings
JoinLabels(particle1, particle2) == particle1 \o particle2

\* conditional_likelihood: (l_data . P(l_branch)) * (r_data . P(r_branch))
conditional_likelihood(l_data, r_data, l_branch, r_branch) ==
  l_data \o r_data \o <<l_branch, r_branch>>

\* a float64 constant c >= 0 as a formal sum: c copies of the number 1
Num(c) == IF c = 0 THEN EmptyBag ELSE [x \in {<<0>>} |-> c]

\* compute_tree_likelihood(data): sum over sites of log(stationary . data)
compute_tree_likelihood(data) == SetToBag({data})

\* the float64 fractions 1 and the log-weight 0
RatOne == <<1, 1>>

\* a - b + log(c) - log(qq), kept as its four operands
LogWeight(a, b, c, qq) == [lik |-> a, prior |-> b, c |-> c, q |-> qq]

ZeroWeight == LogWeight(EmptyBag, EmptyBag, RatOne, RatOne)

---------------------------------------------------------------------------
\* resample

Transpose(M, cols) == Tensor([c \in 0..(cols - 1) |-> [row \in DOMAIN M |-> M[row][c]]])

\* the index vectors tf.random.categorical can draw: every particle has a
\* finite log-weight, hence a positive probability
CategoricalDraws(log_weights_r, num) == [0..(num - 1) -> DOMAIN log_weights_r]

\* resample(JC_K, log_weights) with the categorical draw `draw`
resample(JC_K, draw) == [resampled_JC_K |-> Gather(JC_K, draw), indices |-> draw]

\* GatherTilda without the gather by indices: each slot keeps its own value
GatherTildaNoIndices(ll, idx, rr, num) == Tensor([k \in 0..(num - 1) |-> ll[rr][k]])

\* line 185: tf.gather_nd(tf.gather(tf.transpose(log_likelihood), indices), [[k, r]])
GatherTilda(ll, idx, rr, num) ==
  LET g == Gather(Transpose(ll, num), idx)
  IN  Tensor([k \in 0..(num - 1) |-> g[k][rr]])

\* cond_true_resample
cond_true_resample(tilda, lw, ll, jc, jct, rr, draw) ==
  LET rs == resample(jct, draw)
  IN  [log_likelihood_tilda |-> GatherTilda(ll, rs.indices, rr, Size(jct)),
       jump_chains |-> [k \in DOMAIN jc |-> Concat(jc[k], rs.resampled_JC_K[k])],
       jump_chain_tensor |-> rs.resampled_JC_K,
       indices |-> rs.indices]

---------------------------------------------------------------------------
\* extend_partial_state

\* lines 75-76: data[k][j] = (k * m + j) mod m
ScoreData(num, m) == Tensor([k \in 0..(num - 1) |-> [j \in 0..(m - 1) |-> (k * m + j) % m]])

Distinct(x) == \A i, j \in DOMAIN x : i # j => x[i] # x[j]

\* the rank of each entry of x: top_k reads only the order of the scores
RankRow(x) == Tensor([j \in DOMAIN x |-> Cardinality({i \in DOMAIN x : x[i] < x[j]})])

\* line 79: data + z for one particle, for every Gumbel draw z within the
\* bound; the noise is continuous, so no two perturbed scores are equal
PerturbedRows(row) ==
  {RankRow([j \in DOMAIN row |-> row[j] + z[j]]) :
     z \in {zz \in [DOMAIN row -> 0..MaxZ] :
              Distinct([j \in DOMAIN row |-> row[j] + zz[j]])}}

\* every row data can hold within the bounds, with its perturbed rows
ScoreRows ==
  UNION {{ScoreData(kk, m)[k] : k \in 0..(kk - 1)} :
           kk \in 2..MaxCells, m \in 2..(MaxCells \div 2)}

PerturbedRowsOf == [row \in ScoreRows |-> PerturbedRows(row)]

PerturbedScores(data) ==
  {x \in [DOMAIN data -> UNION {PerturbedRowsOf[data[k]] : k \in DOMAIN data}] :
     \A k \in DOMAIN data : x[k] \in PerturbedRowsOf[data[k]]}

ArgMax(x, S) ==
  CHOOSE j \in S : \A i \in S : x[j] > x[i] \/ (x[j] = x[i] /\ j <= i)

RECURSIVE TopKFrom(_, _, _)
TopKFrom(x, k, S) ==
  IF k <= 0 THEN Empty
  ELSE LET j == ArgMax(x, S) IN Concat(One(j), TopKFrom(x, k - 1, S \ {j}))

\* the indices tf.nn.top_k(x, k) returns for one row: largest first
top_k(x, k) == TopKFrom(x, k, DOMAIN x)

Negative(x) == Tensor([j \in DOMAIN x |-> 0 - x[j]])

\* NewJumpChain without the merged node appended
NewJumpChainNoAppend(JC_keep, particle_coalesced) == JC_keep

\* line 89: tf.concat([JC_keep, expand_dims(particle_coalesced)], axis=1)
NewJumpChain(JC_keep, particle_coalesced) ==
  Tensor([k \in DOMAIN JC_keep |-> Concat(JC_keep[k], One(particle_coalesced[k]))])

\* extend_partial_state(JCK, r) with the perturbed scores x = data + z
extend_partial_state(JCK, rr, x, nn, num) ==
  LET m == nn - rr
      c2 == ncr(m, 2)
      qq == Frac(c2[2], c2[1])
      ci == Tensor([k \in 0..(num - 1) |-> top_k(x[k], 2)])
      ri == Tensor([k \in 0..(num - 1) |-> top_k(Negative(x[k]), m - 2)])
      flat == Flatten(JCK, m)
      JC_keep == Tensor([k \in 0..(num - 1) |-> Gather(flat, ri[k])])
      particles == Tensor([k \in 0..(num - 1) |-> Gather(flat, ci[k])])
      particle1 == Tensor([k \in 0..(num - 1) |-> particles[k][0]])
      particle2 == Tensor([k \in 0..(num - 1) |-> particles[k][1]])
      particle_coalesced ==
        Tensor([k \in 0..(num - 1) |-> JoinLabels(particle1[k], particle2[k])])
  IN  [particle1 |-> particle1, particle2 |-> particle2,
       particle_coalesced |-> particle_coalesced,
       coalesced_indices |-> ci, remaining_indices |-> ri, q |-> qq,
       JCK |-> NewJumpChain(JC_keep, particle_coalesced)]

---------------------------------------------------------------------------
\* body_update_data and the rebuilt core

cond_update_data(k) == k < K

\* body_update_data: the new list new_data
body_update_data(nd, cr, ci, i, k) ==
  LET n1 == ci[k][0]
      n2 == ci[k][1]
      l_data == cr[k][n1]
      r_data == cr[k][n2]
      l_branch == left_branches(k, i)
      r_branch == right_branches(k, i)
      mtx == conditional_likelihood(l_data, r_data, l_branch, r_branch)
  IN  Concat(nd, One(One(mtx)))

RECURSIVE UpdateDataLoop(_, _, _, _, _)
\* tf.while_loop(cond_update_data, body_update_data, ...)
UpdateDataLoop(nd, cr, ci, i, k) ==
  IF cond_update_data(k)
  THEN UpdateDataLoop(body_update_data(nd, cr, ci, i, k), cr, ci, i, k + 1)
  ELSE nd

\* line 211: tf.gather(tf.reshape(core, [K * (n - r), s, a]), remaining_indices)
KeepCore(cr, ri, m) ==
  LET flat == Flatten(cr, m)
  IN  Tensor([k \in DOMAIN ri |-> Gather(flat, ri[k])])

\* line 212: tf.concat([core, new_data], axis=1)
AppendNewData(kept, nd) == Tensor([k \in DOMAIN kept |-> Concat(kept[k], nd[k])])

---------------------------------------------------------------------------
\* overcounting_correct

\* Threshold off by one
ThresholdOff(i) == n - i

Threshold(i) == n - i - 1

\* OvercountResult with <= and >= for the strict comparisons
OvercountResultNonStrict(idx1, idx2, threshold) ==
  LET cond_greater == IF idx1 >= threshold /\ idx2 >= threshold THEN 0 - 1 ELSE 0
  IN  IF idx1 <= threshold /\ idx2 <= threshold THEN 1 ELSE cond_greater

\* lines 119-120: the float added to v
OvercountResult(idx1, idx2, threshold) ==
  LET cond_greater == IF idx1 > threshold /\ idx2 > threshold THEN 0 - 1 ELSE 0
  IN  IF idx1 < threshold /\ idx2 < threshold THEN 1 ELSE cond_greater

overcounting_correct(vk, idx, i) ==
  LET idx1 == idx[0]
      idx2 == idx[1]
      threshold == Threshold(i)
      result == OvercountResult(idx1, idx2, threshold)
      vv == Frac(vk[1] + result * vk[2], vk[2])
  IN  Frac(vv[2], vv[1])

---------------------------------------------------------------------------
\* body_update_weights

cond_compute_forest(i, j) == j < n - 1 - i

RECURSIVE ComputeForestLoop(_, _, _, _, _)
\* tf.while_loop(cond_compute_forest, body_compute_forest, ...)
ComputeForestLoop(acc, cr, i, k, j) ==
  IF cond_compute_forest(i, j)
  THEN ComputeForestLoop(acc (+) compute_tree_likelihood(cr[k][j]), cr, i, k, j + 1)
  ELSE acc

cond_true_update_weights(lwi, lli, tilda, ci, vv, qq, i, k) ==
  LET v2 == Concat(vv, One(overcounting_correct(vv[k], ci[k], i)))
      new_log_weight == LogWeight(lli[k + 1], tilda[k], v2[k + K], qq)
  IN  [v |-> v2, log_weights_i |-> Concat(lwi, One(new_log_weight))]

cond_false_update_weights(lwi, lli, tilda, ci, vv, qq, i, k) ==
  [v |-> Concat(vv, One(RatOne)), log_weights_i |-> Concat(lwi, One(ZeroWeight))]

\* lines 174-176: tf.cond(i > 0, ...)
UpdateWeightsCond(lwi, lli, tilda, ci, vv, qq, i, k) ==
  IF i > 0
  THEN cond_true_update_weights(lwi, lli, tilda, ci, vv, qq, i, k)
  ELSE cond_false_update_weights(lwi, lli, tilda, ci, vv, qq, i, k)

body_update_weights(S, tilda, ci, cr, qq, i) ==
  LET log_likelihood_i_k == ComputeForestLoop(EmptyBag, cr, i, S.k, 0)
      lli == Concat(S.log_likelihood_i, One(log_likelihood_i_k))
      w == UpdateWeightsCond(S.log_weights_i, lli, tilda, ci, S.v, qq, i, S.k)
  IN  [log_weights_i |-> w.log_weights_i, log_likelihood_i |-> lli,
       v |-> w.v, k |-> S.k + 1]

cond_update_weights(k) == k < K

RECURSIVE UpdateWeightsLoop(_, _, _, _, _, _)
\* tf.while_loop(cond_update_weights, body_update_weights, ...)
UpdateWeightsLoop(S, tilda, ci, cr, qq, i) ==
  IF cond_update_weights(S.k)
  THEN UpdateWeightsLoop(body_update_weights(S, tilda, ci, cr, qq, i), tilda, ci, cr, qq, i)
  ELSE S

---------------------------------------------------------------------------
\* sample_phylogenies: the main loop

cond_main(rr) == rr < n - 1

\* lines 236-252.  K = 1 is left out: tf.squeeze turns the single drawn
\* index into a scalar and the graph of cond_true_resample cannot be built.
Init ==
  /\ n \in 2..MaxCells
  /\ K \in 2..MaxCells
  /\ n * K <= MaxCells
  /\ pc = "main"
  /\ r = 0
  /\ log_weights = One(Fill(K, ZeroWeight))
  /\ log_likelihood = One(Fill(K, EmptyBag))
  /\ log_likelihood_tilda = Fill(K, Num(1))
  /\ jump_chains = Fill(K, One(<< >>))
  /\ jump_chain_tensor = Fill(K, [j \in 0..(n - 1) |-> TaxonLabel(j + 1)])
  /\ core = Fill(K, [j \in 0..(n - 1) |-> Genome(j + 1)])
  /\ v = Fill(K, RatOne)
  /\ indices = Empty
  /\ coalesced_indices = Empty
  /\ remaining_indices = Empty
  /\ q = RatOne
  /\ log_weights_i = Empty

\* body_main, lines 195-197 with r > 0
CondTrueResample ==
  /\ pc = "main" /\ cond_main(r) /\ r > 0
  /\ \E draw \in CategoricalDraws(log_weights[r], K) :
       \E res \in {cond_true_resample(log_likelihood_tilda, log_weights, log_likelihood,
                                      jump_chains, jump_chain_tensor, r, draw)} :
           /\ log_likelihood_tilda' = res.log_likelihood_tilda
           /\ jump_chains' = res.jump_chains
           /\ jump_chain_tensor' = res.jump_chain_tensor
           /\ indices' = res.indices
  /\ pc' = "extend"
  /\ UNCHANGED <<n, K, r, log_weights, log_likelihood, core, v, coalesced_indices,
                 remaining_indices, q, log_weights_i>>

\* body_main, lines 195-197 with r = 0: cond_false_resample
CondFalseResample ==
  /\ pc = "main" /\ cond_main(r) /\ ~(r > 0)
  /\ pc' = "extend"
  /\ UNCHANGED <<n, K, r, log_weights, log_likelihood, log_likelihood_tilda, jump_chains,
                 jump_chain_tensor, core, v, indices, coalesced_indices,
                 remaining_indices, q, log_weights_i>>

\* body_main, lines 199-226, for the perturbed scores x: the new values of
\* the loop variables
body_main_extend(x) ==
  LET ext == extend_partial_state(jump_chain_tensor, r, x, n, K)
      nd == UpdateDataLoop(One(One(ZeroMatrix)), core, ext.coalesced_indices, r, 0)
      new_data == GatherRange(nd, 1, K + 1)
      core2 == AppendNewData(KeepCore(core, ext.remaining_indices, n - r), new_data)
      S == UpdateWeightsLoop([log_weights_i |-> One(ZeroWeight),
                              log_likelihood_i |-> One(EmptyBag), v |-> v, k |-> 0],
                             log_likelihood_tilda, ext.coalesced_indices, core2, ext.q, r)
  IN  [coalesced_indices |-> ext.coalesced_indices,
       remaining_indices |-> ext.remaining_indices,
       q |-> ext.q,
       jump_chain_tensor |-> ext.JCK,
       core |-> core2,
       log_weights_i |-> S.log_weights_i,
       log_weights |-> Concat(log_weights, One(GatherRange(S.log_weights_i, 1, K + 1))),
       log_likelihood |->
         Concat(log_likelihood, One(GatherRange(S.log_likelihood_i, 1, K + 1))),
       v |-> GatherRange(S.v, K, 2 * K),
       r |-> r + 1]

\* sample_phylogenies, lines 262-266: the two matrices without their row 0
DropFirstRows(lw, ll) ==
  [log_weights |-> GatherRange(lw, 1, n), log_likelihood |-> GatherRange(ll, 1, n)]

\* body_main, lines 199-227, when cond_main holds again afterwards: extend
\* the partial states, update the partial set data, compute the weights,
\* append the rows and advance r
ExtendAndWeigh ==
  /\ pc = "extend" /\ cond_main(r + 1)
  /\ \E x \in PerturbedScores(ScoreData(K, n - r)) :
       \E res \in {body_main_extend(x)} :
           /\ coalesced_indices' = res.coalesced_indices
           /\ remaining_indices' = res.remaining_indices
           /\ q' = res.q
           /\ jump_chain_tensor' = res.jump_chain_tensor
           /\ core' = res.core
           /\ log_weights_i' = res.log_weights_i
           /\ log_weights' = res.log_weights
           /\ log_likelihood' = res.log_likelihood
           /\ v' = res.v
           /\ r' = res.r
  /\ pc' = "main"
  /\ UNCHANGED <<n, K, log_likelihood_tilda, jump_chains, indices>>

\* body_main, lines 199-227, in the last iteration: cond_main is false
\* afterwards, the loop ends and sample_phylogenies finishes (lines 262-266)
ExtendAndFinish ==
  /\ pc = "extend" /\ ~cond_main(r + 1)
  /\ \E x \in PerturbedScores(ScoreData(K, n - r)) :
       \E res \in {body_main_extend(x)} :
         \E fin \in {DropFirstRows(res.log_weights, res.log_likelihood)} :
           /\ coalesced_indices' = res.coalesced_indices
           /\ remaining_indices' = res.remaining_indices
           /\ q' = res.q
           /\ jump_chain_tensor' = res.jump_chain_tensor
           /\ core' = res.core
           /\ log_weights_i' = res.log_weights_i
           /\ log_weights' = fin.log_weights
           /\ log_likelihood' = fin.log_likelihood
           /\ v' = res.v
           /\ r' = res.r
  /\ pc' = "done"
  /\ UNCHANGED <<n, K, log_likelihood_tilda, jump_chains, indices>>

Next ==
  \/ CondTrueResample
  \/ CondFalseResample
  \/ ExtendAndWeigh
  \/ ExtendAndFinish

Spec == Init /\ [][Next]_vars

---------------------------------------------------------------------------
\* overcounting_correct as a function of its inputs: the update of v in
\* body_update_weights (lines 174-176) applied once, for one particle, to a
\* multiplicity, an index pair and a step drawn from bounded sets.

InitOC ==
  /\ n \in 2..(MaxCells \div 2)
  /\ K = 1
  /\ pc = "oc"
  /\ r \in 0..(n - 2)
  /\ v \in {One(Frac(a, b)) : a \in 1..MaxV, b \in 1..MaxV}
  /\ coalesced_indices \in {One(Pair(i1, i2)) : i1 \in 0..n, i2 \in 0..n}
  /\ log_weights_i = One(ZeroWeight)
  /\ log_likelihood_tilda = One(Num(1))
  /\ q = RatOne
  /\ log_weights = Empty
  /\ log_likelihood = Empty
  /\ jump_chains = Empty
  /\ jump_chain_tensor = Empty
  /\ core = Empty
  /\ indices = Empty
  /\ remaining_indices = Empty

OvercountingStep ==
  /\ pc = "oc"
  /\ \E w \in {UpdateWeightsCond(log_weights_i, Fill(2, EmptyBag), log_likelihood_tilda,
                                 coalesced_indices, v, q, r, 0)} :
         /\ v' = w.v
         /\ log_weights_i' = w.log_weights_i
  /\ pc' = "oc_done"
  /\ UNCHANGED <<n, K, r, log_weights, log_likelihood, log_likelihood_tilda, jump_chains,
                 jump_chain_tensor, core, indices, coalesced_indices, remaining_indices,
                 q>>

NextOC == OvercountingStep

SpecOC == InitOC /\ [][NextOC]_vars

---------------------------------------------------------------------------
\* Properties

Particles == 0..(K - 1)

Range(a) == {a[j] : j \in DOMAIN a}

\* the formal sum of the tree log-likelihoods of all nodes of one core row
SumOfRow(row) == [t \in Range(row) |-> Cardinality({j \in DOMAIN row : row[j] = t})]

\* the taxa a label names, and the leaves a partial likelihood was built from
TaxaOf(label) == {label[j] : j \in DOMAIN label}

LeavesOf(term) == {term[j] : j \in {jj \in DOMAIN term : term[jj] > 0}}

LeafCount(term, t) == Cardinality({j \in DOMAIN term : term[j] = t})

\* C(m, 2)
Choose2(m) == (m * (m - 1)) \div 2

\* C1: at every step r > 0 the resampling replaces, in every slot k, both the
\* label row and the core row by the ones particle indices[k] held at the end
\* of step r - 1.
C1_ResampleGathersLabelsAndCore ==
  [][(pc = "main" /\ cond_main(r) /\ r > 0) =>
       \A k \in Particles :
         /\ jump_chain_tensor'[k] = jump_chain_tensor[indices'[k]]
         /\ core'[k] = core[indices'[k]]]_vars

\* C2: the extension step builds particle k's next forest (label row and core
\* row) from particle k's own nodes that were not chosen for the merge,
\* followed by particle k's own merged node.
C2_ExtensionUsesOwnForest ==
  [][pc = "extend" =>
       \A k \in Particles :
         LET ci == coalesced_indices'[k]
             ri == remaining_indices'[k]
         IN  /\ Range(ri) = (DOMAIN jump_chain_tensor[k]) \ Range(ci)
             /\ jump_chain_tensor'[k] =
                  Concat(Gather(jump_chain_tensor[k], ri),
                         One(JoinLabels(jump_chain_tensor[k][ci[0]],
                                        jump_chain_tensor[k][ci[1]])))
             /\ core'[k] =
                  Concat(Gather(core[k], ri),
                         One(conditional_likelihood(core[k][ci[0]], core[k][ci[1]],
                                                    left_branches(k, r),
                                                    right_branches(k, r))))]_vars

\* C3: the multiplicity v carried from one iteration to the next is at least
\* 1 for every particle.
C3_MultiplicityAtLeastOne ==
  pc = "main" => \A k \in Particles : v[k][1] >= v[k][2]

\* C4: the scores the sampler perturbs are equal for all m = n - r nodes of a
\* particle (so that every pair is equally likely), and the returned q is
\* 1 / C(m, 2).
C4_UniformScores ==
  /\ pc = "extend" =>
       \A k \in Particles : \A j1, j2 \in 0..(n - r - 1) :
         ScoreData(K, n - r)[k][j1] = ScoreData(K, n - r)[k][j2]
  /\ (pc = "main" /\ r > 0) => q = <<1, Choose2(n - r + 1)>>

\* C5: when sample_phylogenies has finished, the label created by the last
\* merge (the root) appears in the particle's row of jump_chains.
C5_RootInJumpChains ==
  pc = "done" =>
    \A k \in Particles :
      \E c \in DOMAIN jump_chains[k] : jump_chains[k][c] = jump_chain_tensor[k][0]

\* C6: the loop runs exactly the n - 1 steps r = 0..n-2; at step r every label
\* row and core row has n - r nodes before the merge (at least 2) and
\* n - r - 1 after it, and exactly 1 after the last step.
C6_NodeCount ==
  /\ r \in 0..(n - 1)
  /\ pc = "extend" => r <= n - 2 /\ n - r >= 2
  /\ pc = "main" => Size(log_weights) = r + 1
  /\ pc = "done" => r = n - 1 /\ Size(log_weights) = n - 1
  /\ \A k \in Particles :
       /\ pc \in {"main", "extend"} =>
            /\ DOMAIN jump_chain_tensor[k] = 0..(n - r - 1)
            /\ DOMAIN core[k] = 0..(n - r - 1)
       /\ pc = "done" =>
            /\ DOMAIN jump_chain_tensor[k] = {0}
            /\ DOMAIN core[k] = {0}

C6_Witness ==
  /\ pc = "done" /\ n > 2 /\ r = n - 1
  /\ \A k \in Particles : Size(jump_chain_tensor[k]) = 1 /\ Size(core[k]) = 1

\* the log-weight the claim gives particle k at step i, from the state at the
\* end of that step; row is where the log_likelihood matrix holds step i - 1
ClaimedLogWeight(i, k, row) ==
  IF i = 0 THEN ZeroWeight
  ELSE [lik |-> SumOfRow(core[k]),
        prior |-> log_likelihood[row][indices[k]],
        c |-> v[k],
        q |-> <<1, Choose2(n - i)>>]

\* C7: at the end of step i, logWeight[i, k] = L_i[k] - L_(i-1)[a_k]
\* + log(c_k) - log(q) with L_i[k] the sum over the n - i - 1 nodes of core
\* row k, a_k the index drawn for slot k, c_k the overcounting factor
\* returned for k and q = 1 / C(n - i, 2); at step 0 it is 0.  (The matrices
\* hold step i in row i + 1 during the loop and in row i once
\* sample_phylogenies has dropped their row 0.)
C7_LogWeightFormula ==
  /\ (pc = "main" /\ r > 0) =>
       \A k \in Particles :
         /\ Size(core[k]) = n - r
         /\ log_likelihood[r][k] = SumOfRow(core[k])
         /\ log_weights[r][k] = ClaimedLogWeight(r - 1, k, r - 1)
  /\ pc = "done" =>
       \A k \in Particles :
         /\ log_likelihood[r - 1][k] = SumOfRow(core[k])
         /\ log_weights[r - 1][k] = ClaimedLogWeight(r - 1, k, r - 2)

C7_Witness ==
  /\ pc = "main" /\ r = 2
  /\ \E k \in Particles :
       /\ indices[k] # k
       /\ log_likelihood[1][indices[k]] # log_likelihood[1][k]
       /\ log_weights[2][k].prior = log_likelihood[1][indices[k]]
       /\ log_weights[2][k].c = <<1, 2>>

\* the signed update the claim gives for an index pair and a threshold
ClaimedDelta(idx1, idx2, t) ==
  CASE idx1 > t /\ idx2 > t -> 0 - 1
    [] idx1 < t /\ idx2 < t -> 1
    [] OTHER -> 0

\* C8: at step i > 0 overcounting_correct returns 1 / (v + d) with d = -1 if
\* both indices are above t = n - i - 1, +1 if both are below, 0 otherwise;
\* at step 0 the value recorded is 1.
C8_OvercountingRule ==
  pc = "oc_done" =>
    LET idx == coalesced_indices[0]
        d == ClaimedDelta(idx[0], idx[1], n - r - 1)
        num == v[0][1]
        den == v[0][2]
    IN  IF r > 0
        THEN v[1] = Frac(den, num + d * den) /\ log_weights_i[1].c = v[1]
        ELSE v[1] = <<1, 1>> /\ log_weights_i[1] = ZeroWeight

C8_Witness ==
  /\ pc = "oc_done" /\ r > 0
  /\ coalesced_indices[0][0] > n - r - 1 /\ coalesced_indices[0][1] > n - r - 1
  /\ v[0] = <<3, 2>> /\ v[1] = <<2, 1>>

\* C9: after every step, the taxa named by the label at position j of
\* particle k are the leaves the partial likelihood at position j of
\* particle k was built from; at termination the root partial likelihood
\* holds each of the n taxa exactly once.
C9_LabelsMatchCore ==
  /\ pc \in {"main", "done"} =>
       \A k \in Particles : \A j \in DOMAIN jump_chain_tensor[k] :
         TaxaOf(jump_chain_tensor[k][j]) = LeavesOf(core[k][j])
  /\ pc = "done" =>
       \A k \in Particles : \A t \in 1..n : LeafCount(core[k][0], t) = 1

\* C10: the index pair passed to overcounting_correct at step i lies in
\* 0..n-i-1, so the update added to v is 0 or +1, never -1, and it is +1
\* exactly when neither merged node is the last forest position.
C10_UpdateNeverNegative ==
  [][(pc = "extend" /\ r > 0) =>
       \A k \in Particles :
         LET idx == coalesced_indices'[k]
             last == n - r - 1
             d == IF idx[0] # last /\ idx[1] # last THEN 1 ELSE 0
         IN  /\ idx[0] \in 0..last /\ idx[1] \in 0..last
             /\ OvercountResult(idx[0], idx[1], Threshold(r)) = d
             /\ v'[k] = Frac(v[k][2], v[k][1] + d * v[k][2])]_vars

\* step r - 1 > 0 has just merged two positions below its last one, n - r
C10_Witness ==
  /\ pc = "main" /\ r > 1
  /\ \E k \in Particles :
       /\ coalesced_indices[k][0] < n - r /\ coalesced_indices[k][1] < n - r
       /\ v[k] = <<1, 2>>

====
